---- MODULE Spec2Model ----
(***************************************************************************)
(* maya2katana, Arnold renderer plugin (src/renderer/arnold/__init__.py).  *)
(*                                                                         *)
(* Three state machines share the variables below:                         *)
(*   SpecRamp  the ramp encoder process_ramp, applied to one ramp node;    *)
(*   SpecMap   the attribute mapper, applied to one node and the schema    *)
(*             the mappings table gives its type;                          *)
(*   Spec      the rewrite pipeline: the preprocess hooks of the plugin,   *)
(*             the rename pass, postprocess_network_material and the       *)
(*             emission of the graph.                                      *)
(* The hooks are translated from the plugin; the engine that calls them    *)
(* (scheduling, the rename ledger, unique names, emission) is not part of  *)
(* the plugin file and is modelled from the design document.               *)
(***************************************************************************)
EXTENDS Integers, Sequences, FiniteSets, TLC

VARIABLES
    rampNode,   \* process_ramp: the node handed to the hook
    entries,    \* process_ramp: Maya's colorEntryList of the node, by index
    xml,        \* process_ramp: the parameters of xml_group the hook fills
    rampPc,     \* process_ramp: "idle", "done" or "raised"
    rampLog,    \* process_ramp: the warnings logged
    graph,      \* pipeline: the working node map, key -> node record
    scene,      \* pipeline: what the Maya queries answer (read only)
    order,      \* pipeline: the discovery order of the source nodes
    ran,        \* pipeline: the preprocess steps run: node and weight it got
    ledger,     \* pipeline: the rename ledger, old id -> new id
    issued,     \* pipeline: the names utils.unique_name has issued
    phase,      \* pipeline: position of the orchestrator
    material,   \* pipeline: key of the node postprocess is working on
    cursor,     \* pipeline: shader_node of postprocess_network_material
    before,     \* pipeline: the working graph as it was before postprocess
    emitted,    \* pipeline: the graph handed to the emitter
    ports,      \* pipeline: the ports process_network_material leaves
    mapNode,    \* mapper: the node mapped, its schema group and attributes
    tree,       \* mapper: the attribute tree, target name -> values written
    mapPc       \* mapper: "idle" or "done"

vars == <<rampNode, entries, xml, rampPc, rampLog, graph, scene, order, ran, 
          ledger, issued, phase, material, cursor, before, emitted, ports,
          mapNode, tree, mapPc>>

rampVars == <<rampNode, entries, xml, rampPc, rampLog>>
pipeVars == <<graph, scene, order, ran, ledger, issued, phase,
              material, cursor, before, emitted, ports>>
mapVars == <<mapNode, tree, mapPc>>

(***************************************************************************)
(* Bounds of the model.                                                    *)
(***************************************************************************)
\* Most control points of one ramp.
MaxPoints == 3

\* Positions are tenths: 0 is 0.0, 5 is 0.5, 10 is 1.0.
Positions == {0, 5, 10}

\* Colours are (r, g, b) in tenths.
Colors == {<<10, 0, 0>>, <<0, 10, 5>>}

None == "None"

Range(s) == {s[i] : i \in DOMAIN s}

(***************************************************************************)
(* Python values.  str() of a float and of an int are different strings    *)
(* ("0.0" and "0"); both are kept as a tagged number.                      *)
(***************************************************************************)
StrFloat(t) == <<"float", t>>
StrInt(n) == <<"int", n>>
\* The number a value string denotes, in tenths.
NumVal(s) == IF s[1] = "float" THEN s[2] ELSE 10 * s[2]

NoValue == <<"none", 0>>

\* list[idx] of Python is defined (no IndexError): a negative idx counts from
\* the end of the list.
PyIndexOk(list, idx) == -Len(list) <= idx /\ idx < Len(list)
PyIndex(list, idx) ==
    IF idx >= 0 THEN list[idx + 1] ELSE list[Len(list) + idx + 1]

\* dict.get(key): the value, or None.
Get(dict, key) == IF key \in DOMAIN dict THEN dict[key] ELSE None

\* The dict without one key (del dict[key], dict.pop(key, None)).
Without(dict, key) == [k \in DOMAIN dict \ {key} |-> dict[k]]

\* dict.update(other).
Update(dict, other) ==
    [k \in DOMAIN dict \cup DOMAIN other |->
        IF k \in DOMAIN other THEN other[k] ELSE dict[k]]

EmptyDict == [k \in {} |-> None]

\* utils.has_connection(node, port): the node has an input connection on port.
HasConnection(node, port) == port \in DOMAIN node.connections

(***************************************************************************)
(* process_ramp(xml_group, node): the customProcess of 'ramp', 'rampFloat'. *)
(***************************************************************************)
\* The parameters of the xml_group the hook looks for, in its order.
DestKeys(key_value) ==
    <<"input", "type", "position", key_value, "interpolation", "ramp">>

\* key_value = "color" if node_type == "ramp" else "value"
KeyValue(node_type) == IF node_type = "ramp" THEN "color" ELSE "value"

\* tupleSize of the value node of a parameter, as the node template declares
\* it: an rgb triple for 'color', a scalar otherwise (the literal offsets 3
\* and 6 of the colour branch are this tuple size and twice it).
TupleSize(dest_key) == IF dest_key = "color" THEN 3 ELSE 1

\* The plug of control point i that process_ramp asks has_connection about.
EntryPlug(i) == "colorEntryList[" \o ToString(i) \o "].color"

\* RampHeader leaving a connected coordinate where it is.
RampHeaderNoMove(node) ==
    LET t == node.attributes["type"]
        coord == IF t = 0 THEN "vCoord" ELSE "uCoord"
    IN  IF t \in {0, 1}
        THEN [ramp_type |-> IF t = 0 THEN "v" ELSE "u",
              ramp_input |-> IF coord \in DOMAIN node.attributes
                             THEN StrFloat(node.attributes[coord])
                             ELSE StrInt(0),
              connections |-> node.connections,
              warned |-> FALSE]
        ELSE [ramp_type |-> CASE t = 2 -> "diagonal"
                              [] t = 3 -> "radial"
                              [] t = 4 -> "circular"
                              [] t = 5 -> "box"
                              [] OTHER -> "custom",
              ramp_input |-> <<"empty", 0>>,
              connections |-> node.connections,
              warned |-> t \notin 2..5]

\* The ramp type, the literal of 'input' and the connections after the
\* coordinate connection has been moved to 'input'.
RampHeader(node) ==
    LET t == node.attributes["type"]
        conns == node.connections
        coord == IF t = 0 THEN "vCoord" ELSE "uCoord"
        moved == [k \in (DOMAIN conns \ {coord}) \cup {"input"} |->
                     IF k = "input" THEN conns[coord] ELSE conns[k]]
    IN  IF t \in {0, 1}
        THEN [ramp_type |-> IF coord \in DOMAIN conns THEN "custom"
                            ELSE IF t = 0 THEN "v" ELSE "u",
              ramp_input |-> IF coord \in DOMAIN node.attributes
                             THEN StrFloat(node.attributes[coord])
                             ELSE StrInt(0),
              connections |-> IF coord \in DOMAIN conns THEN moved ELSE conns,
              warned |-> FALSE]
        ELSE [ramp_type |-> CASE t = 2 -> "diagonal"
                              [] t = 3 -> "radial"
                              [] t = 4 -> "circular"
                              [] t = 5 -> "box"
                              [] OTHER -> "custom",
              ramp_input |-> <<"empty", 0>>,
              connections |-> conns,
              warned |-> t \notin 2..5]

\* interpolation = 0 if a == 0 else 3 if a == 4 else 2
InterpolationCode(a) == IF a = 0 THEN 0 ELSE IF a = 4 THEN 3 ELSE 2

\* has_connections: some control point has its colour plug connected.
HasConnections(node, K) ==
    \E i \in 0..(K - 1) : HasConnection(node, EntryPlug(i))

\* color_entry_list before the sort: one {key_value, position} per control
\* point, by ascending index; under has_connections the value is the running
\* index, an int, otherwise the colour tuple.
CollectEntries(node, pts) ==
    LET has == HasConnections(node, Len(pts))
    IN  [i \in 1..Len(pts) |->
            [value |-> IF has THEN <<"int", i - 1>>
                       ELSE <<"tuple", pts[i].color>>,
             position |-> pts[i].position]]

\* list.sort(key=position): stable, ascending.
RECURSIVE InsertByPosition(_, _)
InsertByPosition(sorted, e) ==
    IF sorted = <<>> THEN <<e>>
    ELSE IF sorted[Len(sorted)].position <= e.position
         THEN Append(sorted, e)
         ELSE Append(InsertByPosition(SubSeq(sorted, 1, Len(sorted) - 1), e),
                     sorted[Len(sorted)])

RECURSIVE SortByPosition(_)
SortByPosition(list) ==
    IF list = <<>> THEN <<>>
    ELSE InsertByPosition(SortByPosition(SubSeq(list, 1, Len(list) - 1)),
                          list[Len(list)])

\* str(value[j] if tuple_size > 1 else value) raises no TypeError.
StrOk(value, tuple_size) == tuple_size > 1 => value[1] = "tuple"

\* str(value[j] if tuple_size > 1 else value), j counted from 0.
StrOf(value, j, tuple_size) ==
    IF tuple_size > 1 THEN StrFloat(value[2][j + 1])
    ELSE IF value[1] = "float" THEN StrFloat(value[2])
    ELSE StrInt(value[2])

\* for j in range(tuple_size): one number_parameter named "i" + str(base + j).
Block(value, base, tuple_size) ==
    [j \in 1..tuple_size |->
        [name |-> "i" \o ToString(base + j - 1),
         value |-> StrOf(value, j - 1, tuple_size)]]

\* ColorPart with the duplicate of the last control point forgotten.
ColorPartNoTail(list, i, size, ts) ==
    LET value == list[i + 1].value
    IN  IF i = 0
        THEN Block(value, i * ts, ts) \o Block(value, i * ts + 3, ts)
        ELSE Block(value, i * ts + 3, ts)

\* The number_parameters of 'color' that iteration i of the first loop adds.
ColorPart(list, i, size, ts) ==
    LET value == list[i + 1].value
    IN  IF i = 0
        THEN Block(value, i * ts, ts) \o Block(value, i * ts + 3, ts)
        ELSE IF i < size - 3
        THEN Block(value, i * ts + 3, ts)
        ELSE Block(value, i * ts + 3, ts) \o Block(value, i * ts + 6, ts)

\* The number_parameters of 'position' that iteration i of the second loop
\* adds; value is color_entry_list[i if i < size - 2 else i - 2].
PositionPart(list, i, size, ts) ==
    LET value == <<"float",
                   PyIndex(list, IF i < size - 2 THEN i ELSE i - 2).position>>
    IN  IF i = 0
        THEN Block(<<"int", 0>>, i * ts, ts) \o Block(value, i * ts + 1, ts)
        ELSE IF i < size - 3
        THEN Block(value, i * ts + 1, ts)
        ELSE Block(value, i * ts + 1, ts) \o Block(value, i * ts + 2, ts)

\* The number_parameters of 'interpolation' that iteration i adds.
InterpolationPart(interpolation, i, ts) ==
    Block(<<"int", interpolation>>, i * ts, ts)

\* part(0) \o ... \o part(n - 1)
RECURSIVE Concat(_, _)
Concat(part(_), n) ==
    IF n = 0 THEN <<>> ELSE Concat(part, n - 1) \o part(n - 1)

\* An array parameter the hook has enabled and sized.
Filled(size, raised, elems) ==
    [enable |-> TRUE, value |-> NoValue, size |-> size, raised |-> raised,
     elems |-> elems]

\* What the hook leaves in one array parameter (position, color, value or
\* interpolation): the size attribute, the number_parameters, and whether an
\* exception left the hook there.
ArrayParameter(dest_key, list, interpolation, size) ==
    LET ts == TupleSize(dest_key)
        K == size - 2
        ColorAt(i) == ColorPart(list, i, size, ts)
        PositionAt(i) == PositionPart(list, i, size, ts)
        InterpolationAt(i) == InterpolationPart(interpolation, i, ts)
    IN  CASE dest_key = "color" ->
               IF K > 0 /\ ~StrOk(list[1].value, ts)
               \* the first number_parameter is created and named, then
               \* value[j] of an int raises TypeError
               THEN Filled(ts * size, TRUE,
                           <<[name |-> "i0", value |-> NoValue]>>)
               ELSE Filled(ts * size, FALSE, Concat(ColorAt, K))
          [] dest_key = "position" ->
               IF ~PyIndexOk(list, IF 0 < size - 2 THEN 0 ELSE -2)
               \* color_entry_list[-2] of an empty list raises IndexError
               THEN Filled(ts * size, TRUE, <<>>)
               ELSE Filled(ts * size, FALSE, Concat(PositionAt, size))
          [] dest_key = "interpolation" ->
               Filled(ts * size, FALSE, Concat(InterpolationAt, size))
          [] OTHER ->
               \* 'value' of a rampFloat: neither loop has a branch for it
               Filled(ts * size, FALSE, <<>>)

\* What the hook leaves in 'input', 'type' or 'ramp'.
LiteralParameter(dest_key, header, size, old) ==
    IF dest_key \in DOMAIN header.connections THEN old
    ELSE [old EXCEPT !.enable = TRUE,
                     !.value = CASE dest_key = "input" -> header.ramp_input
                                 [] dest_key = "type" ->
                                        <<"str", header.ramp_type>>
                                 [] OTHER -> StrInt(size)]

\* A parameter of the template before the hook touches it.
Untouched ==
    [enable |-> FALSE, value |-> NoValue, size |-> 0, raised |-> FALSE,
     elems |-> <<>>]

\* The xml_group after process_ramp: the parameters are filled in the order of
\* DestKeys, and an exception leaves the later ones untouched.
RECURSIVE FillFrom(_, _, _, _, _, _)
FillFrom(keys, n, header, list, interpolation, size) ==
    IF n = 0 THEN [k \in Range(keys) |-> Untouched]
    ELSE LET prev == FillFrom(keys, n - 1, header, list, interpolation, size)
             k == keys[n]
         IN  IF \E d \in DOMAIN prev : prev[d].raised THEN prev
             ELSE IF k \in {"input", "type", "ramp"}
             THEN [prev EXCEPT ![k] = LiteralParameter(k, header, size, @)]
             ELSE [prev EXCEPT ![k] =
                      ArrayParameter(k, list, interpolation, size)]

ProcessRampResult(node, pts) ==
    LET header == RampHeader(node)
        key_value == KeyValue(node.type)
        size == 2 + Len(pts)
        list == SortByPosition(CollectEntries(node, pts))
    IN  [xml |-> FillFrom(DestKeys(key_value), 6, header, list,
                          InterpolationCode(node.attributes["interpolation"]),
                          size),
         connections |-> header.connections,
         warned |-> header.warned]

(***************************************************************************)
(* SpecRamp: process_ramp applied to one ramp node.                        *)
(***************************************************************************)
RampTypes == 0..6
\* attributes["interpolation"]: Maya's None (0), Linear (1) and Smooth (4), and
\* Bump (5), a mode the target has no counterpart of.
Interpolations == {0, 1, 4, 5}

\* The control-point lists of the scene: any positions and colours.
PointLists ==
    UNION {[1..K -> [position : Positions, color : Colors]] : K \in 0..MaxPoints}

\* The input connections a ramp node can have: any control points, the
\* coordinate of a v or u ramp and, on the ramps of at most one control
\* point, the ports 'type' and 'ramp'.
RampConnections(t, K) ==
    LET coord == IF t = 0 THEN {"vCoord"} ELSE IF t = 1 THEN {"uCoord"} ELSE {}
        plugs == {EntryPlug(i) : i \in 0..(K - 1)}
        literals == IF K <= 1 THEN {"type", "ramp"} ELSE {}
    IN  {[p \in ps |-> [node |-> "tex", original_port |-> "outColor"]] :
            ps \in SUBSET (plugs \cup coord \cup literals)}

\* The attributes of a ramp node: type, interpolation and, for a v or u ramp,
\* possibly the coordinate.
RampAttributes(t) ==
    LET base == {[k \in {"type", "interpolation"} |->
                     IF k = "type" THEN t ELSE a] : a \in Interpolations}
        coord == IF t = 0 THEN "vCoord" ELSE "uCoord"
    IN  IF t \in {0, 1}
        THEN base \cup {[k \in DOMAIN b \cup {coord} |->
                            IF k = coord THEN 5 ELSE b[k]] : b \in base}
        ELSE base

PipeIdle ==
    /\ graph = EmptyDict
    /\ scene = EmptyDict
    /\ order = <<>>
    /\ ran = <<>>
    /\ ledger = EmptyDict
    /\ issued = {}
    /\ phase = "idle"
    /\ material = None
    /\ cursor = None
    /\ before = EmptyDict
    /\ emitted = EmptyDict
    /\ ports = {}

\* The attribute mapper is not exercised.
MapIdle ==
    /\ mapNode = EmptyDict
    /\ tree = EmptyDict
    /\ mapPc = "done"

\* Every ramp type, coordinate and interpolation is tried on the ramps of at
\* most one control point, every control-point list on a diagonal ramp: the
\* hook fills the header and the arrays independently of each other.
InitRamp ==
    /\ entries \in PointLists
    /\ \E t \in (IF Len(entries) <= 1 THEN RampTypes ELSE {2}),
          ty \in {"ramp", "rampFloat"} :
         \E at \in RampAttributes(t), cs \in RampConnections(t, Len(entries)) :
            \* the colours of a ramp with connected points are not read
            /\ (\E i \in 0..(Len(entries) - 1) : EntryPlug(i) \in DOMAIN cs)
                  => \A i \in 1..Len(entries) :
                        entries[i].color = <<10, 0, 0>>
            /\ rampNode = [name |-> "ramp1", type |-> ty, attributes |-> at,
                           connections |-> cs]
    /\ xml = [k \in Range(DestKeys(KeyValue(rampNode.type))) |-> Untouched]
    /\ rampPc = "idle"
    /\ rampLog = <<>>
    /\ PipeIdle
    /\ MapIdle

ProcessRamp ==
    /\ rampPc = "idle"
    /\ IF rampNode.name = "" \/ rampNode.type = ""
       THEN /\ rampPc' = "done"
            /\ UNCHANGED <<rampNode, xml, rampLog>>
       ELSE LET r == ProcessRampResult(rampNode, entries)
            IN  /\ xml' = r.xml
                /\ rampNode' = [rampNode EXCEPT !.connections = r.connections]
                /\ rampLog' = IF r.warned
                              THEN Append(rampLog, "Can't translate ramp type")
                              ELSE rampLog
                /\ rampPc' = IF \E k \in DOMAIN r.xml : r.xml[k].raised
                             THEN "raised" ELSE "done"
    /\ UNCHANGED <<entries, pipeVars, mapVars>>

NextRamp == ProcessRamp

SpecRamp == InitRamp /\ [][NextRamp]_vars

(***************************************************************************)
(* The rewrite pipeline.  A node record is                                 *)
(*   [name, type, attributes, connections, weight, renamings];             *)
(* a connection is [node, original_port].  A key a Python dict does not    *)
(* hold is None here ('name' and 'type' of the Empty record of             *)
(* preprocess_ramp), and weight 0 is the default of a record without one.  *)
(***************************************************************************)
Conn(n, p) == [node |-> n, original_port |-> p]

NodeRecord(name, type, attributes, connections, weight, renamings) ==
    [name |-> name, type |-> type, attributes |-> attributes,
     connections |-> connections, weight |-> weight, renamings |-> renamings]

\* The dict of a set of <<key, value>> pairs with distinct keys.
DictOf(pairs) ==
    [k \in {q[1] : q \in pairs} |-> (CHOOSE q \in pairs : q[1] = k)[2]]

\* premap: the source types with a "type" override and no preprocess hook.
PremapType ==
    [aiStandardSurface |-> "standard_surface",
     aiWriteColor |-> "aov_write_rgb",
     aiWriteFloat |-> "aov_write_float",
     aiNoise |-> "noise"]

\* The keys of mappings: the node types the target knows.  A record of any
\* other type is ignored by the emitter.
KnownTypes ==
    {"standard_surface", "aov_write_rgb", "aov_write_float", "noise", "ramp",
     "rampFloat", "mix", "facingRatio", "two_sided", "bump2d",
     "spaceTransform", "range", "networkMaterial", "networkMaterial_ar5"}

\* node["weight"] = 10 of preprocess_bump, = 20 of preprocess_displacement.
BumpWeight == 10
DisplacementWeight == 20

\* float(cmds.pluginInfo('mtoa', version=True)[0]) >= 2.0
IsArnold5 == scene.version >= 2

\* utils.unique_name(base): base itself, or base with the first counter that
\* makes it differ from every name issued so far and every source node id.
UniqueName(base, taken) ==
    IF base \notin taken THEN base
    ELSE base \o ToString(CHOOSE n \in 1..(Cardinality(taken) + 1) :
                             /\ (base \o ToString(n)) \notin taken
                             /\ \A m \in 1..(n - 1) :
                                   (base \o ToString(m)) \in taken)

Taken == issued \cup DOMAIN scene.nodes

\* utils.get_out_connection(connection): the output port of a connection,
\* None for the empty dict.
GetOutConnection(connection) ==
    IF connection = EmptyDict THEN None ELSE connection.original_port

(***************************************************************************)
(* preprocess_sampler(node)                                                *)
(***************************************************************************)
\* cmds.listConnections(node, destination=True): the outputs of the node that
\* drive some input of the scene.
OutConnections(node_name) ==
    {c.original_port :
        c \in {d \in UNION {Range(scene.nodes[n].connections) :
                                n \in DOMAIN scene.nodes} :
                  d.node = node_name}}

\* SamplerNodes that hands the samplerInfo node back as well.
SamplerNodesKeep(node, taken) ==
    LET outs == OutConnections(node.name)
        facing == UniqueName("facingRatio", taken)
    IN  DictOf({<<node.name, node>>} \cup
               (IF "facingRatio" \in outs
                THEN {<<facing,
                        NodeRecord(facing, "facingRatio", EmptyDict, EmptyDict,
                                   0, DictOf({<<node.name,
                                                [name |-> facing]>>}))>>}
                ELSE {}))

\* The records the hook returns: one per supported output that is connected.
SamplerNodes(node, taken) ==
    LET outs == OutConnections(node.name)
        facing == UniqueName("facingRatio", taken)
        flipped == UniqueName("flippedNormal", taken)
        renamings == [new \in {facing, flipped} |->
                         DictOf({<<node.name, [name |-> new]>>})]
    IN  DictOf(
          (IF "facingRatio" \in outs
           THEN {<<facing, NodeRecord(facing, "facingRatio", EmptyDict,
                                      EmptyDict, 0, renamings[facing])>>}
           ELSE {})
          \cup
          (IF "flippedNormal" \in outs
           THEN {<<flipped,
                   NodeRecord(flipped, "two_sided",
                              [k \in {"front", "back"} |->
                                  IF k = "front" THEN <<10, 10, 10, 10>>
                                  ELSE <<0, 0, 0, 10>>],
                              EmptyDict, 0, renamings[flipped])>>}
           ELSE {}))

(***************************************************************************)
(* preprocess_bump(node)                                                   *)
(***************************************************************************)
SpaceTransformAttributes ==
    [type |-> 2, invert_x |-> 0, invert_y |-> 0, invert_z |-> 0, from |-> 4,
     to |-> 0, color_to_signed |-> 1, set_normal |-> 1]

\* BumpNodes that makes a spaceTransform of every bump2d.
BumpNodesAlways(node) ==
    DictOf({<<node.name,
              [node EXCEPT !.weight = BumpWeight,
                           !.type = "spaceTransform",
                           !.attributes =
                               Update(node.attributes,
                                      SpaceTransformAttributes)]>>})

BumpNodes(node) ==
    LET weighted == [node EXCEPT !.weight = BumpWeight]
    IN  DictOf({<<node.name,
                  IF Get(node.attributes, "bumpInterp") = 1
                  THEN [weighted EXCEPT
                           !.type = "spaceTransform",
                           !.attributes =
                               Update(node.attributes, SpaceTransformAttributes)]
                  ELSE weighted>>})

(***************************************************************************)
(* preprocess_ramp(node)                                                   *)
(***************************************************************************)
\* The two spellings of the colour plug of control point i: the hook's regular
\* expression color_entry_list\[(\d+)\] finds the first only.
SnakePlug(i) == "color_entry_list[" \o ToString(i) \o "].color"

\* color_entry_list: index -> connection, for the connections whose name the
\* regular expression matches.
ConnectedEntries(node) ==
    LET idx == {i \in 0..(MaxPoints - 1) :
                   SnakePlug(i) \in DOMAIN node.connections}
    IN  [i \in idx |-> node.connections[SnakePlug(i)]]

\* The colour of a constant control point, as cmds.getAttr answers it.
EntryColor(node_name, i) == scene.colors[node_name][i + 1]

\* The mix node that replaces a ramp of one or two connected points.
MixNode(node, color_entry_list, mix_name) ==
    LET indices == [j \in 1..scene.sizes[node.name] |-> j - 1]
        Input(j) == IF indices[j] \in DOMAIN color_entry_list
                    THEN {} ELSE {<<"input" \o ToString(j),
                                    EntryColor(node.name, indices[j])>>}
        Wire(j) == IF indices[j] \in DOMAIN color_entry_list
                   THEN {<<"input" \o ToString(j),
                           color_entry_list[indices[j]]>>}
                   ELSE {}
    IN  NodeRecord(mix_name, "mix",
                   DictOf(Input(1) \cup Input(2)),
                   DictOf({<<"mix", Conn(node.name, None)>>}
                          \cup Wire(1) \cup Wire(2)),
                   0,
                   DictOf({<<node.name, [name |-> mix_name]>>}))

\* RampNodes with the rename of a single-point ramp pointing at the Empty
\* record instead of the source of the point.
RampNodesRenameToEmpty(node, taken, source) ==
    LET color_entry_list == ConnectedEntries(node)
        size == scene.sizes[node.name]
        empty_name == UniqueName("Empty", taken)
        mix_name == UniqueName(node.name \o "Mix", taken)
        n == Cardinality(DOMAIN color_entry_list)
    IN  IF size < 2 /\ color_entry_list # EmptyDict
        THEN IF size = 1
             THEN DictOf({<<empty_name,
                            NodeRecord(None, None, EmptyDict, EmptyDict, 0,
                               DictOf({<<node.name,
                                         [name |-> empty_name]>>}))>>})
             ELSE EmptyDict
        ELSE IF n > 0 /\ n <= 2
        THEN DictOf({<<mix_name, MixNode(node, color_entry_list, mix_name)>>,
                     <<node.name, [node EXCEPT !.type = "rampFloat"]>>})
        ELSE DictOf({<<node.name, node>>})

\* The records the hook returns.  source is color_entry_list.values()[0]: any
\* of the connections, as the order of a dict's values is not defined.
RampNodes(node, taken, source) ==
    LET color_entry_list == ConnectedEntries(node)
        size == scene.sizes[node.name]
        empty_name == UniqueName("Empty", taken)
        mix_name == UniqueName(node.name \o "Mix", taken)
        n == Cardinality(DOMAIN color_entry_list)
    IN  IF size < 2 /\ color_entry_list # EmptyDict
        THEN IF size = 1
             THEN DictOf({<<empty_name,
                            NodeRecord(None, None, EmptyDict, EmptyDict, 0,
                               DictOf({<<node.name,
                                         [name |-> source.node]>>}))>>})
             ELSE EmptyDict
        ELSE IF n > 0 /\ n <= 2
        THEN DictOf({<<mix_name, MixNode(node, color_entry_list, mix_name)>>,
                     <<node.name, [node EXCEPT !.type = "rampFloat"]>>})
        ELSE DictOf({<<node.name, node>>})

(***************************************************************************)
(* preprocess_displacement(node)                                           *)
(***************************************************************************)
DisplacementNodes(node) ==
    LET connection == IF "displacement" \in DOMAIN node.connections
                      THEN node.connections["displacement"] ELSE EmptyDict
        rename == IF connection = EmptyDict THEN None ELSE connection.node
    IN  DictOf({<<node.name,
                  [node EXCEPT
                      !.weight = DisplacementWeight,
                      !.type = "range",
                      !.connections =
                          DictOf({<<"input",
                                    Conn(rename,
                                         GetOutConnection(connection))>>})]>>})

(***************************************************************************)
(* preprocess_network_material(node)                                       *)
(***************************************************************************)
SurfaceInputs ==
    <<"aiSurfaceShader", "surfaceShader", "aiVolumeShader", "volumeShader">>

\* NetworkMaterialNodes taking the last connected surface input, not the first.
NetworkMaterialNodesLast(node) ==
    LET connections == node.connections
        found == {j \in 1..Len(SurfaceInputs) :
                     SurfaceInputs[j] \in DOMAIN connections}
        last == CHOOSE j \in found : \A m \in found : j >= m
        surface == IF found = {} THEN {}
                   ELSE {<<"arnoldSurface", connections[SurfaceInputs[last]]>>}
        displacement == IF "displacementShader" \in DOMAIN connections
                        THEN {<<"arnoldDisplacement",
                                connections["displacementShader"]>>}
                        ELSE {}
    IN  DictOf({<<node.name,
                  [node EXCEPT
                      !.type = IF IsArnold5 THEN "networkMaterial_ar5"
                               ELSE "networkMaterial",
                      !.connections = DictOf(surface \cup displacement)]>>})

NetworkMaterialNodes(node) ==
    LET connections == node.connections
        found == {j \in 1..Len(SurfaceInputs) :
                     SurfaceInputs[j] \in DOMAIN connections}
        first == CHOOSE j \in found : \A m \in found : j <= m
        surface == IF found = {} THEN {}
                   ELSE {<<"arnoldSurface", connections[SurfaceInputs[first]]>>}
        displacement == IF "displacementShader" \in DOMAIN connections
                        THEN {<<"arnoldDisplacement",
                                connections["displacementShader"]>>}
                        ELSE {}
    IN  DictOf({<<node.name,
                  [node EXCEPT
                      !.type = IF IsArnold5 THEN "networkMaterial_ar5"
                               ELSE "networkMaterial",
                      !.connections = DictOf(surface \cup displacement)]>>})

(***************************************************************************)
(* The engine around the hooks: the rename ledger.                         *)
(***************************************************************************)
CycleError == "CycleError"

\* resolve(id): follow the entries of the ledger to an id that has none,
\* giving up after `hops` of them.
RECURSIVE Follow(_, _)
Follow(id, hops) ==
    IF id \notin DOMAIN ledger \/ ledger[id] = id THEN id
    ELSE IF hops = 0 THEN CycleError
    ELSE Follow(ledger[id], hops - 1)

\* Resolve with a hop limit of one.
ResolveOneHop(id) == Follow(id, 1)

\* N, the hop limit, is the node count of the working graph.
Resolve(id) == Follow(id, Cardinality(DOMAIN graph))

\* The <<old id, new id>> pairs the renamings of some records declare.
Renamings(nodes) ==
    UNION {{<<old, nodes[k].renamings[old].name>> :
               old \in DOMAIN nodes[k].renamings} : k \in DOMAIN nodes}

\* The ledgers that merging the renamings of `nodes` can give: where two
\* records rename the same id, the one merged last stays, and the order the
\* records of one hook are merged in is that of a dict.
Merged(nodes) ==
    LET pairs == Renamings(nodes)
        olds == {q[1] : q \in pairs}
    IN  {Update(ledger, pick) :
            pick \in {f \in [olds -> {q[2] : q \in pairs}] :
                         \A o \in olds : <<o, f[o]>> \in pairs}}

\* Every connection of the working graph, resolved; the port is kept, as no
\* entry of the plugin names a port.
Resolved(nodes) ==
    [k \in DOMAIN nodes |->
        [nodes[k] EXCEPT !.connections =
            [q \in DOMAIN nodes[k].connections |->
                Conn(Resolve(nodes[k].connections[q].node),
                     nodes[k].connections[q].original_port)]]]

\* DropDangling that keeps every port.
KeepDangling(nodes) == nodes

\* A port whose source is no node of the final graph is dropped.
DropDangling(nodes) ==
    [k \in DOMAIN nodes |->
        [nodes[k] EXCEPT !.connections =
            [q \in {q \in DOMAIN nodes[k].connections :
                       nodes[k].connections[q].node \in DOMAIN nodes} |->
                nodes[k].connections[q]]]]

\* The records the emitter takes: those of a type it knows.
Emitted(nodes) ==
    DropDangling([k \in {k \in DOMAIN nodes : nodes[k].type \in KnownTypes} |->
                     nodes[k]])

(***************************************************************************)
(* The engine around the hooks: the preprocessor pipeline.                 *)
(***************************************************************************)
Pending == Range(order) \ {ran[i].node : i \in DOMAIN ran}

Index(n) == CHOOSE i \in DOMAIN order : order[i] = n

\* The next node to preprocess: least weight first, discovery order on ties.
IsNext(n) ==
    /\ n \in Pending
    /\ \A m \in Pending :
          \/ graph[n].weight < graph[m].weight
          \/ graph[n].weight = graph[m].weight /\ Index(n) <= Index(m)

\* The records of a hook replace the node it was called on, and their
\* renamings go to the ledger.
Replace(n, nodes, names) ==
    /\ graph' = Update(Without(graph, n), nodes)
    /\ ledger' \in Merged(nodes)
    /\ issued' = issued \cup names
    /\ ran' = Append(ran, [node |-> n,
                           weight |-> IF n \in DOMAIN nodes
                                      THEN nodes[n].weight ELSE 0])
    /\ UNCHANGED <<scene, order, phase, material, cursor, before,
                   emitted, rampVars, ports, mapVars>>

PreprocessSampler ==
    /\ phase = "pre"
    /\ \E n \in DOMAIN graph :
          /\ IsNext(n)
          /\ graph[n].type = "samplerInfo"
          /\ LET nodes == SamplerNodes(graph[n], Taken)
             IN  Replace(n, nodes, DOMAIN nodes)

PreprocessBump ==
    /\ phase = "pre"
    /\ \E n \in DOMAIN graph :
          /\ IsNext(n)
          /\ graph[n].type = "bump2d"
          /\ Replace(n, BumpNodes(graph[n]), {})

PreprocessRamp ==
    /\ phase = "pre"
    /\ \E n \in DOMAIN graph :
          /\ IsNext(n)
          /\ graph[n].type = "ramp"
          /\ \E source \in Range(ConnectedEntries(graph[n])) \cup {Conn(None, None)} :
                /\ (source = Conn(None, None))
                      <=> (ConnectedEntries(graph[n]) = EmptyDict)
                /\ LET nodes == RampNodes(graph[n], Taken, source)
                   IN  Replace(n, nodes, DOMAIN nodes \ {n})

PreprocessDisplacement ==
    /\ phase = "pre"
    /\ \E n \in DOMAIN graph :
          /\ IsNext(n)
          /\ graph[n].type = "displacementShader"
          /\ Replace(n, DisplacementNodes(graph[n]), {})

PreprocessNetworkMaterial ==
    /\ phase = "pre"
    /\ \E n \in DOMAIN graph :
          /\ IsNext(n)
          /\ graph[n].type = "shadingEngine"
          /\ Replace(n, NetworkMaterialNodes(graph[n]), {})

\* A source type with no hook takes the type premap gives it.
OverrideType ==
    /\ phase = "pre"
    /\ \E n \in DOMAIN graph :
          /\ IsNext(n)
          /\ graph[n].type \in DOMAIN PremapType
          /\ Replace(n, DictOf({<<n, [graph[n] EXCEPT
                                        !.type = PremapType[graph[n].type]]>>}),
                     {})

\* The ledger resolution pass over all connections: after preprocessing, and
\* again after postprocessing.  A cycle aborts the run.
ResolvePass ==
    /\ \/ phase = "pre" /\ Pending = {}
       \/ phase = "final"
    /\ IF \E k \in DOMAIN graph : \E c \in Range(graph[k].connections) :
             Resolve(c.node) = CycleError
       THEN /\ phase' = "aborted"
            /\ UNCHANGED graph
       ELSE /\ graph' = Resolved(graph)
            /\ phase' = IF phase = "pre" THEN "map" ELSE "emit"
    /\ UNCHANGED <<scene, order, ran, ledger, issued, material, cursor,
                   before, emitted, rampVars, ports, mapVars>>

(***************************************************************************)
(* process_network_material(xml_group, node): the customProcess of         *)
(* 'networkMaterial' and 'networkMaterial_ar5', called when the attributes *)
(* of the node are mapped, between the rename pass and the postprocess.    *)
(***************************************************************************)
\* The input ports of the node template, which are the ports the hook looks
\* for: one list for plugin versions from 2.0, one for the older ones.
TemplatePorts ==
    IF IsArnold5 THEN {"arnoldSurface", "arnoldDisplacement"}
    ELSE {"arnold_surface", "arnoldBump", "arnoldDisplacement"}

\* The ports left: those whose name is a key of node["connections"].
NetworkMaterialPorts(node) ==
    {i \in TemplatePorts : i \in DOMAIN node.connections}

ProcessNetworkMaterial ==
    /\ phase = "map"
    /\ \E m \in DOMAIN graph :
          /\ graph[m].type \in {"networkMaterial", "networkMaterial_ar5"}
          /\ ports' = NetworkMaterialPorts(graph[m])
    /\ phase' = "post"
    /\ UNCHANGED <<graph, scene, order, ran, ledger, issued, material, cursor,
                   before, emitted, rampVars, mapVars>>

(***************************************************************************)
(* postprocess_network_material(node, all_nodes)                           *)
(***************************************************************************)
AovWriteTypes == {"aov_write_rgb", "aov_write_float"}

\* all_nodes.get(id)
Lookup(id) == IF id \in DOMAIN graph THEN id ELSE None

\* The condition of the while loop.
IsPassthrough(shader_node) ==
    shader_node # None /\ graph[shader_node].type \in AovWriteTypes

\* The hook up to the loop: shader_node = all_nodes.get(arnoldSurface.node).
\* Without an arnoldSurface connection the hook returns no record.
PostprocessBegin ==
    /\ phase = "post"
    /\ \E m \in DOMAIN graph :
          /\ graph[m].type \in {"networkMaterial", "networkMaterial_ar5"}
          /\ before' = graph
          /\ IF "arnoldSurface" \in DOMAIN graph[m].connections
             THEN /\ material' = m
                  /\ cursor' = Lookup(graph[m].connections["arnoldSurface"].node)
                  /\ phase' = "loop"
                  /\ UNCHANGED graph
             ELSE /\ graph' = Without(graph, m)
                  /\ phase' = "final"
                  /\ UNCHANGED <<material, cursor>>
    /\ UNCHANGED <<scene, order, ran, ledger, issued, emitted, rampVars, ports, mapVars>>

\* One turn of the loop: shader_node moves to the source of 'beauty' when the
\* node has that connection, and stays where it is when it has not.
PostprocessFollow ==
    /\ phase = "loop"
    /\ IsPassthrough(cursor)
    /\ cursor' = IF "beauty" \in DOMAIN graph[cursor].connections
                 THEN Lookup(graph[cursor].connections["beauty"].node)
                 ELSE cursor
    /\ UNCHANGED <<graph, scene, order, ran, ledger, issued, phase,
                   material, before, emitted, rampVars, ports, mapVars>>

\* RenamedNodes returning the shader under the name it had.
RenamedNodesKeepName(node, shader_node) ==
    LET shader_node_name == shader_node.name
        material_name == shader_node.name \o "_mtl"
        moves == ~IsArnold5 /\ "normalCamera" \in DOMAIN shader_node.connections
        surface == [node.connections["arnoldSurface"]
                       EXCEPT !.node = shader_node_name]
    IN  DictOf({<<shader_node_name,
                  [shader_node EXCEPT
                      !.name = shader_node_name,
                      !.connections =
                          IF moves THEN Without(@, "normalCamera") ELSE @]>>,
                <<material_name,
                  [node EXCEPT
                      !.name = material_name,
                      !.connections =
                          Update(@, DictOf(
                              {<<"arnoldSurface", surface>>} \cup
                              (IF moves
                               THEN {<<"arnoldBump",
                                       shader_node.connections["normalCamera"]>>}
                               ELSE {}))),
                      !.renamings =
                          DictOf({<<material_name,
                                    [name |-> shader_node_name]>>})]>>})

\* RenamedNodes moving the bump connection whatever the plugin version.
RenamedNodesBumpAlways(node, shader_node) ==
    LET shader_node_name == shader_node.name \o "_out"
        material_name == shader_node.name \o "_mtl"
        moves == "normalCamera" \in DOMAIN shader_node.connections
        surface == [node.connections["arnoldSurface"]
                       EXCEPT !.node = shader_node_name]
    IN  DictOf({<<shader_node_name,
                  [shader_node EXCEPT
                      !.name = shader_node_name,
                      !.connections =
                          IF moves THEN Without(@, "normalCamera") ELSE @]>>,
                <<material_name,
                  [node EXCEPT
                      !.name = material_name,
                      !.connections =
                          Update(@, DictOf(
                              {<<"arnoldSurface", surface>>} \cup
                              (IF moves
                               THEN {<<"arnoldBump",
                                       shader_node.connections["normalCamera"]>>}
                               ELSE {}))),
                      !.renamings =
                          DictOf({<<material_name,
                                    [name |-> shader_node_name]>>})]>>})

\* The records the hook returns once the loop has ended at shader_node.
RenamedNodes(node, shader_node) ==
    LET shader_node_name == shader_node.name \o "_out"
        material_name == shader_node.name \o "_mtl"
        moves == ~IsArnold5 /\ "normalCamera" \in DOMAIN shader_node.connections
        surface == [node.connections["arnoldSurface"]
                       EXCEPT !.node = shader_node_name]
    IN  DictOf({<<shader_node_name,
                  [shader_node EXCEPT
                      !.name = shader_node_name,
                      !.connections =
                          IF moves THEN Without(@, "normalCamera") ELSE @]>>,
                <<material_name,
                  [node EXCEPT
                      !.name = material_name,
                      !.connections =
                          Update(@, DictOf(
                              {<<"arnoldSurface", surface>>} \cup
                              (IF moves
                               THEN {<<"arnoldBump",
                                       shader_node.connections["normalCamera"]>>}
                               ELSE {}))),
                      !.renamings =
                          DictOf({<<material_name,
                                    [name |-> shader_node_name]>>})]>>})

\* The hook after the loop: the shader is popped from all_nodes and returned
\* as <name>_out with the material as <name>_mtl; the engine puts the records
\* returned in the place of the material.
PostprocessRename ==
    /\ phase = "loop"
    /\ ~IsPassthrough(cursor)
    /\ LET nodes == IF cursor = None THEN EmptyDict
                    ELSE RenamedNodes(graph[material], graph[cursor])
           popped == IF cursor = None THEN graph
                     ELSE Without(graph, graph[cursor].name)
       IN  /\ graph' = Update(Without(popped, material), nodes)
           /\ ledger' \in Merged(nodes)
    /\ phase' = "final"
    /\ UNCHANGED <<scene, order, ran, issued, material, cursor, before,
                   emitted, rampVars, ports, mapVars>>

\* The graph goes to the emitter.
Emit ==
    /\ phase = "emit"
    /\ emitted' = Emitted(graph)
    /\ phase' = "done"
    /\ UNCHANGED <<graph, scene, order, ran, ledger, issued, material,
                   cursor, before, rampVars, ports, mapVars>>

(***************************************************************************)
(* Spec: the pipeline on the shading network of one shadingEngine.         *)
(***************************************************************************)
\* Most aiWriteColor nodes between the shadingEngine and the surface shader.
MaxAov == 2

Aov(i) == "aov" \o ToString(i)

\* What the 'beauty' input of aov i may be driven by: nothing, the shader,
\* the next aov node, or the first one (a cycle).
BeautyChoices(i) ==
    {None, "surf", Aov(1)} \cup (IF i < MaxAov THEN {Aov(i + 1)} ELSE {})

Beauties ==
    {f \in [1..MaxAov -> {None, "surf"} \cup {Aov(i) : i \in 1..MaxAov}] :
        \A i \in 1..MaxAov : f[i] \in BeautyChoices(i)}

\* A ramp of the scene: its control points, which of them are driven by a
\* texture, and the output that drives them.
RampChoices(sources) ==
    UNION {{[size |-> k, connected |-> cs, source |-> src] :
               cs \in SUBSET (0..(k - 1)),
               src \in sources} : k \in 0..MaxPoints}

NoRamp == [size |-> 0, connected |-> {}, source |-> Conn("noise1", "outAlpha")]

\* The scenes with ramps under a plain material, and the scenes with a
\* material network (aov nodes, bump, displacement, samplerInfo) and no ramp.
RampScenes ==
    [version : {2}, first : {"surf"}, beauty : {[i \in 1..MaxAov |-> None]},
     disp : {"none"}, bump : {-1}, base : {"ramp1"}, info : {{}},
     snake : BOOLEAN, reversed : {FALSE}, extra : {{}},
     ramp1 : RampChoices({Conn("ramp2", "outColor"), Conn("noise1", "outAlpha")}),
     ramp2 : RampChoices({Conn("ramp1", "outColor"), Conn("noise1", "outAlpha")})]

MaterialScenes ==
    [version : {1, 2}, first : {None, "surf", Aov(1)}, beauty : Beauties,
     disp : {"none", "bare", "fed"}, bump : {-1, 0, 1}, base : {None},
     info : SUBSET {"facingRatio", "flippedNormal", "uvCoord"},
     snake : {TRUE}, reversed : BOOLEAN, extra : {{}},
     ramp1 : {NoRamp}, ramp2 : {NoRamp}]

\* The other inputs of a shadingEngine, each driven by an output of noise1:
\* the three surface and volume inputs besides surfaceShader, and an input
\* preprocess_network_material has no use for.
ExtraInputs ==
    [aiSurfaceShader |-> "outColor", aiVolumeShader |-> "outColorR",
     volumeShader |-> "outColorG", aiCustomAOVs |-> "outAlpha"]

\* The scenes with any inputs of the shadingEngine connected, where the
\* shader's baseColor may be driven by a texture that is named surf_out.
EngineScenes ==
    [version : {1, 2}, first : {None, "surf"},
     beauty : {[i \in 1..MaxAov |-> None]},
     disp : {"none", "bare"}, bump : {-1}, base : {None, "surf_out"},
     info : {{}},
     snake : {TRUE}, reversed : {FALSE}, extra : SUBSET DOMAIN ExtraInputs,
     ramp1 : {NoRamp}, ramp2 : {NoRamp}]

Source(name, type, attributes, connections) ==
    NodeRecord(name, type, attributes, connections, 0, EmptyDict)

RampSource(name, c, snake) ==
    Source(name, "ramp", EmptyDict,
           [q \in {IF snake THEN SnakePlug(i) ELSE EntryPlug(i) :
                      i \in c.connected} |-> c.source])

\* Every node the choices describe, reachable from the shadingEngine or not.
AllNodes(c) ==
    LET sg == Source("SG", "shadingEngine", EmptyDict,
                  DictOf((IF c.first = None THEN {}
                          ELSE {<<"surfaceShader", Conn(c.first, "outColor")>>})
                         \cup
                         (IF c.disp = "none" THEN {}
                          ELSE {<<"displacementShader",
                                  Conn("disp1", "displacement")>>})
                         \cup
                         {<<e, Conn("noise1", ExtraInputs[e])>> :
                             e \in c.extra}))
        surf == Source("surf", "aiStandardSurface", EmptyDict,
                  DictOf((IF c.base = None THEN {}
                          ELSE {<<"baseColor", Conn(c.base, "outColor")>>})
                         \cup
                         (IF c.bump < 0 THEN {}
                          ELSE {<<"normalCamera", Conn("bump1", "outNormal")>>})
                         \cup
                         (IF "facingRatio" \in c.info
                          THEN {<<"specularColor",
                                  Conn("info1", "facingRatio")>>}
                          ELSE {})
                         \cup
                         (IF "flippedNormal" \in c.info
                          THEN {<<"opacity", Conn("info1", "flippedNormal")>>}
                          ELSE {})
                         \cup
                         (IF "uvCoord" \in c.info
                          THEN {<<"emissionColor", Conn("info1", "uvCoord")>>}
                          ELSE {})))
        aovs == {<<Aov(i),
                   Source(Aov(i), "aiWriteColor", EmptyDict,
                      IF c.beauty[i] = None THEN EmptyDict
                      ELSE DictOf({<<"beauty",
                                     Conn(c.beauty[i], "outColor")>>}))>> :
                    i \in 1..MaxAov}
    IN  DictOf({<<"SG", sg>>, <<"surf", surf>>,
                <<"bump1", Source("bump1", "bump2d",
                                  [bumpInterp |-> c.bump],
                                  DictOf({<<"bumpValue",
                                            Conn("noise1", "outAlpha")>>}))>>,
                <<"disp1", Source("disp1", "displacementShader", EmptyDict,
                                  IF c.disp = "fed"
                                  THEN DictOf({<<"displacement",
                                                 Conn("noise1", "outAlpha")>>})
                                  ELSE EmptyDict)>>,
                <<"ramp1", RampSource("ramp1", c.ramp1, c.snake)>>,
                <<"ramp2", RampSource("ramp2", c.ramp2, c.snake)>>,
                <<"noise1", Source("noise1", "aiNoise", EmptyDict, EmptyDict)>>,
                <<"surf_out", Source("surf_out", "aiNoise", EmptyDict,
                                     EmptyDict)>>,
                <<"info1", Source("info1", "samplerInfo", EmptyDict,
                                  EmptyDict)>>}
               \cup aovs)

\* The nodes upstream of the shadingEngine: what the scene query lists.
RECURSIVE Upstream(_, _, _)
Upstream(nodes, found, rounds) ==
    LET more == found \cup
                {c.node : c \in UNION {Range(nodes[n].connections) : n \in found}}
    IN  IF rounds = 0 \/ more = found THEN found
        ELSE Upstream(nodes, more, rounds - 1)

RECURSIVE Reverse(_)
Reverse(seq) ==
    IF seq = <<>> THEN <<>> ELSE Append(Reverse(Tail(seq)), Head(seq))

\* The order the nodes of a scene are discovered in, one way and the other.
Canonical ==
    <<"SG">> \o [i \in 1..MaxAov |-> Aov(i)] \o
    <<"surf", "bump1", "ramp1", "ramp2", "info1", "noise1", "surf_out",
      "disp1">>

Discovery(present, reversed) ==
    LET seq == SelectSeq(Canonical, LAMBDA n : n \in present)
    IN  IF reversed THEN Reverse(seq) ELSE seq

RampIdle ==
    /\ rampNode = Source("ramp1", "ramp", EmptyDict, EmptyDict)
    /\ entries = <<>>
    /\ xml = EmptyDict
    /\ rampPc = "done"
    /\ rampLog = <<>>

Init ==
    /\ \E c \in RampScenes \cup MaterialScenes \cup EngineScenes :
          LET all == AllNodes(c)
              present == Upstream(all, {"SG"}, Cardinality(DOMAIN all))
          IN  /\ graph = [n \in present |-> all[n]]
              /\ scene = [version |-> c.version,
                          nodes |-> [n \in present |-> all[n]],
                          sizes |-> [r \in {"ramp1", "ramp2"} |->
                                        IF r = "ramp1" THEN c.ramp1.size
                                        ELSE c.ramp2.size],
                          colors |-> [r \in {"ramp1", "ramp2"} |->
                                        [i \in 1..MaxPoints |-> <<10, 0, 0>>]]]
              /\ order = Discovery(present, c.reversed)
    /\ ran = <<>>
    /\ ledger = EmptyDict
    /\ issued = {}
    /\ phase = "pre"
    /\ material = None
    /\ cursor = None
    /\ before = EmptyDict
    /\ emitted = EmptyDict
    /\ ports = {}
    /\ RampIdle
    /\ MapIdle

Next ==
    \/ PreprocessSampler
    \/ PreprocessBump
    \/ PreprocessRamp
    \/ PreprocessDisplacement
    \/ PreprocessNetworkMaterial
    \/ OverrideType
    \/ ResolvePass
    \/ ProcessNetworkMaterial
    \/ PostprocessBegin
    \/ PostprocessFollow
    \/ PostprocessRename
    \/ Emit

Spec == Init /\ [][Next]_vars

\* The engine runs every step it can: it does not stop between two steps.
FairSpec == Spec /\ WF_vars(Next)

(***************************************************************************)
(* SpecMap: the attribute mapper applied to one node.  The schemas are     *)
(* groups of the mappings table of the plugin; the mapper that walks them  *)
(* belongs to the engine and follows the design document: a leaf whose     *)
(* source key the node has writes one attribute, under its own name or the *)
(* name the leaf gives, an enum leaf writing the label its value selects.  *)
(***************************************************************************)
\* The leaves of a schema: passthrough (None), rename, rename with labels.
Passthrough == [to |-> None, labels |-> <<>>]
Rename(to) == [to |-> to, labels |-> <<>>]
RenameEnum(to, labels) == [to |-> to, labels |-> labels]
Enum(labels) == [to |-> None, labels |-> labels]

\* The schema groups as the table writes them, <<source key, leaf>> in the
\* order of the dict literal: the types 'mix', 'mix_rgba', 'two_sided',
\* 'bump2d' and 'spaceTransform', the type 'image' without its node colour
\* and the override of 'filename', and the groups 'subsurface', 'coat',
\* 'sheen' and 'matte' of 'standard_surface'.
Written ==
    [spaceTransform |->
        << <<"bumpValue", Rename("input")>>, <<"bumpDepth", Rename("scale")>>,
           <<"type", Enum(<<"point", "vector", "normal">>)>>,
           <<"order", Enum(<<"XYZ", "XZY", "YXZ", "YZX", "ZXY", "ZYX">>)>>,
           <<"invert_x", Passthrough>>, <<"invert_y", Passthrough>>,
           <<"invert_z", Passthrough>>, <<"color_to_signed", Passthrough>>,
           <<"from", Enum(<<"world", "object", "camera", "screen",
                            "tangent">>)>>,
           <<"to", Enum(<<"world", "object", "camera", "screen",
                          "tangent">>)>>,
           <<"tangent", Passthrough>>, <<"set_normal", Passthrough>> >>,
     image |->
        << <<"filter", Enum(<<"closest", "bilinear", "bicubic",
                              "smart_bicubic">>)>>,
           <<"mipmapBias", Rename("mipmap_bias")>>,
           <<"multiply", Passthrough>>, <<"offset", Passthrough>>,
           <<"colorSpace", Rename("color_space")>>,
           <<"ignoreMissingTextures", Rename("ignore_missing_textures")>>,
           <<"missingTextureColor", Rename("missing_texture_color")>>,
           <<"uvset", Passthrough>>, <<"uvcoords", Passthrough>>,
           <<"soffset", Passthrough>>, <<"toffset", Passthrough>>,
           <<"swrap", Enum(<<"periodic", "black", "clamp", "mirror",
                             "file">>)>>,
           <<"twrap", Enum(<<"periodic", "black", "clamp", "mirror",
                             "file">>)>>,
           <<"sscale", Passthrough>>, <<"tscale", Passthrough>>,
           <<"sflip", Passthrough>>, <<"tflip", Passthrough>>,
           <<"swapSt", Rename("swap_st")>>,
           <<"singleChannel", Rename("single_channel")>>,
           <<"startChannel", Rename("start_channel")>> >>,
     mix |-> << <<"input1", Passthrough>>, <<"input2", Passthrough>>,
                <<"mix", Passthrough>>, <<"color1", Rename("input2")>>,
                <<"color2", Rename("input1")>>, <<"blender", Rename("mix")>> >>,
     mix_rgba |-> << <<"input1", Passthrough>>, <<"input2", Passthrough>>,
                     <<"mix", Passthrough>>, <<"color1", Rename("input2")>>,
                     <<"color2", Rename("input1")>>,
                     <<"blender", Rename("mix")>> >>,
     two_sided |-> << <<"front", Passthrough>>, <<"back", Passthrough>> >>,
     bump2d |-> << <<"bumpValue", Rename("bump_map")>>,
                   <<"bumpDepth", Rename("bump_height")>> >>,
     subsurface |-> << <<"subsurfaceColor", Rename("subsurface_color")>>,
                       <<"subsurfaceRadius", Rename("subsurface_radius")>>,
                       <<"subsurfaceScale", Rename("subsurface_scale")>>,
                       <<"subsurfaceType",
                         RenameEnum("subsurface_type",
                                    <<"diffusion", "randomwalk",
                                      "randomwalk_v2">>)>>,
                       <<"subsurfaceAnisotropy",
                         Rename("subsurface_anisotropy")>> >>,
     coat |-> << <<"coatColor", Rename("coat_color")>>,
                 <<"coatRoughness", Rename("coat_roughness")>>,
                 <<"coatIOR", Rename("coat_IOR")>>,
                 <<"coatAnisotropy", Rename("coat_anisotropy")>>,
                 <<"coatRotation", Rename("coat_rotation")>>,
                 <<"coatNormal", Rename("coat_normal")>>,
                 <<"", Rename("coat_affect_color")>>,
                 <<"", Rename("coat_affect_roughness")>> >>,
     sheen |-> << <<"sheenColor", Rename("sheen_color")>>,
                  <<"sheenRoughness", Rename("sheen_roughness")>> >>,
     matte |-> << <<"matteColor", Rename("")>>,
                  <<"matteOpacity", Rename("")>> >>]

\* The dict a dict literal builds: of two entries with one key the later stays.
PyDict(written) ==
    [k \in {written[i][1] : i \in DOMAIN written} |->
        written[CHOOSE i \in DOMAIN written :
                   /\ written[i][1] = k
                   /\ \A m \in DOMAIN written : written[m][1] = k => m <= i][2]]

Schema(group) == PyDict(Written[group])

\* The name and the value of the attribute a leaf writes.
LeafName(key, leaf) == IF leaf.to = None THEN key ELSE leaf.to
LeafValue(leaf, value) ==
    IF leaf.labels = <<>> THEN value ELSE leaf.labels[value + 1]

\* An enum value the labels of the leaf have no entry for is unmappable.
Mappable(leaf, value) ==
    leaf.labels = <<>> \/ (value + 1) \in DOMAIN leaf.labels

\* The attribute tree of one group: target name -> the attributes written
\* under that name, each by the source key of the leaf that wrote it; an
\* unmappable value is dropped.
MapAttributes(schema, attributes) ==
    LET keys == {k \in DOMAIN schema \cap DOMAIN attributes :
                    Mappable(schema[k], attributes[k])}
        names == {LeafName(k, schema[k]) : k \in keys}
    IN  [n \in names |->
            [k \in {k \in keys : LeafName(k, schema[k]) = n} |->
                LeafValue(schema[k], attributes[k])]]

\* The values of the source attributes; an enum index within the labels.
MapValues == {1, 2}

\* The types whose nodes are given to the mapper as they are.
DirectGroups == DOMAIN Written \ {"spaceTransform", "image"}

(***************************************************************************)
(* preprocess_image(node), preprocess_file(node)                           *)
(***************************************************************************)
\* The wrap modes of an aiImage node.
WrapValues == 0..5

\* A file name as its parts between the dots, and the parts that are digits.
Filenames == {<<"tex", "exr">>, <<"tex", "1001", "exr">>}
Digits == {"1001"}

\* re.sub(r"\.\d+\.", ".<UDIM>.", filename)
ReSubUdim(filename) ==
    [i \in DOMAIN filename |->
        IF 1 < i /\ i < Len(filename) /\ filename[i] \in Digits
        THEN "<UDIM>" ELSE filename[i]]

\* ImageNodes that leaves the wrap modes as they are.
ImageNodesNoWrap(node) ==
    DictOf({<<node.name,
              [node EXCEPT !.type = "image",
                           !.attributes =
                               Update(@, [colorSpace |-> "linear"])]>>})

ImageNodes(node) ==
    LET Wrap(v) == IF v = 5 THEN 0 ELSE v
        attributes == node.attributes
    IN  DictOf({<<node.name,
                  [node EXCEPT
                      !.type = "image",
                      !.attributes =
                          [k \in DOMAIN attributes \cup {"colorSpace"} |->
                              CASE k = "swrap" -> Wrap(attributes["swrap"])
                                [] k = "twrap" -> Wrap(attributes["twrap"])
                                [] k = "colorSpace" -> "linear"
                                [] OTHER -> attributes[k]]]>>})

FileNodes(node) ==
    LET attributes == node.attributes
        filename == IF attributes["uvTilingMode"] = 3
                    THEN ReSubUdim(attributes["fileTextureName"])
                    ELSE attributes["fileTextureName"]
    IN  DictOf({<<node.name,
                  [node EXCEPT
                      !.type = "image",
                      !.attributes =
                          [k \in DOMAIN attributes \cup
                                 {"filename", "filter", "multiply", "offset",
                                  "colorSpace"} |->
                              CASE k = "filename" -> filename
                                [] k = "filter" -> 3
                                [] k = "multiply" -> attributes["colorGain"]
                                [] k = "offset" -> attributes["colorOffset"]
                                [] k = "colorSpace" -> "linear"
                                [] OTHER -> attributes[k]]]>>})

\* The source nodes that go through a preprocess hook before the mapper: an
\* aiImage, a file and a bump2d node, with the attributes the hooks read.
HookedSources ==
    {Source("image1", "aiImage", a, EmptyDict) :
        a \in [swrap : WrapValues, twrap : WrapValues]}
    \cup
    {Source("file1", "file", a, EmptyDict) :
        a \in [fileTextureName : Filenames, uvTilingMode : {0, 3},
               colorGain : MapValues, colorOffset : MapValues]}
    \cup
    {Source("bump1", "bump2d", a, EmptyDict) :
        a \in [bumpInterp : 0..2, bumpDepth : MapValues]}

\* The node the mapper is applied to: its type, its attributes, and the node
\* as the scene has it.
InitMap ==
    /\ \/ /\ \E g \in DirectGroups :
                \E keys \in SUBSET DOMAIN Schema(g) :
                   \E attributes \in [keys -> MapValues] :
                      mapNode = [group |-> g, attributes |-> attributes,
                                 source |-> Source("node1", g, attributes,
                                                   EmptyDict)]
          /\ mapPc = "idle"
       \/ /\ \E node \in HookedSources :
                mapNode = [group |-> node.type, attributes |-> node.attributes,
                           source |-> node]
          /\ mapPc = "source"
    /\ tree = EmptyDict
    /\ PipeIdle
    /\ RampIdle

\* The preprocess hook of the node's type gives the node the mapper gets.
Hooked(nodes) ==
    /\ mapPc = "source"
    /\ LET node == nodes[mapNode.source.name]
       IN  mapNode' = [mapNode EXCEPT !.group = node.type,
                                      !.attributes = node.attributes]
    /\ mapPc' = "idle"
    /\ UNCHANGED <<tree, rampVars, pipeVars>>

MapPreprocessImage ==
    /\ mapNode.group = "aiImage"
    /\ Hooked(ImageNodes(mapNode.source))

MapPreprocessFile ==
    /\ mapNode.group = "file"
    /\ Hooked(FileNodes(mapNode.source))

MapPreprocessBump ==
    /\ mapNode.group = "bump2d"
    /\ Hooked(BumpNodes(mapNode.source))

MapNode ==
    /\ mapPc = "idle"
    /\ tree' = MapAttributes(Schema(mapNode.group), mapNode.attributes)
    /\ mapPc' = "done"
    /\ UNCHANGED <<mapNode, rampVars, pipeVars>>

NextMap ==
    \/ MapPreprocessImage
    \/ MapPreprocessFile
    \/ MapPreprocessBump
    \/ MapNode

SpecMap == InitMap /\ [][NextMap]_vars

(***************************************************************************)
(* Claims about process_ramp, checked under SpecRamp.                      *)
(***************************************************************************)
K == Len(entries)

\* The number_parameters of an array parameter named "i" + str(n).
Named(arr, n) ==
    {i \in 1..Len(arr.elems) : arr.elems[i].name = "i" \o ToString(n)}

\* The array holds exactly the elements i0 .. i(n-1), each once.
ExactlyElements(arr, n) ==
    /\ Len(arr.elems) = n
    /\ \A m \in 0..(n - 1) : Cardinality(Named(arr, m)) = 1

\* The value of element n of an array that holds it exactly once.
ElementValue(arr, n) == arr.elems[CHOOSE i \in Named(arr, n) : TRUE].value

\* Slot s of the colour array: its three components.
ColorSlot(s) == [j \in 1..3 |-> ElementValue(xml["color"], 3 * s + j - 1)]

\* The control points in an ascending order of position.
AscendingOrders ==
    {f \in [1..K -> 1..K] :
        /\ \A a, b \in 1..K : a # b => f[a] # f[b]
        /\ \A a \in 1..(K - 1) :
              entries[f[a]].position <= entries[f[a + 1]].position}

ConstantRamp(ty) ==
    /\ rampPc # "idle"
    /\ rampNode.type = ty
    /\ ~HasConnections(rampNode, K)
    /\ K >= 2

\* C1: a colour ramp of K >= 2 constant control points gets a colour array of
\* exactly K + 2 slots: slots 1..K are the control points by ascending
\* position, slot 0 repeats slot 1 and slot K + 1 repeats slot K.
C1_ColorLayout ==
    ConstantRamp("ramp") =>
        /\ rampPc = "done"
        /\ ExactlyElements(xml["color"], 3 * (K + 2))
        /\ \E f \in AscendingOrders :
              \A s \in 1..K :
                 ColorSlot(s) = [j \in 1..3 |-> StrFloat(entries[f[s]].color[j])]
        /\ ColorSlot(0) = ColorSlot(1)
        /\ ColorSlot(K + 1) = ColorSlot(K)

\* C1 witness: three constant points given out of position order and of
\* different colours have been encoded.
C1_Witness ==
    /\ ConstantRamp("ramp")
    /\ rampPc = "done"
    /\ K = 3
    /\ entries[1].position > entries[2].position
    /\ entries[2].position > entries[3].position
    /\ entries[1].color # entries[3].color

\* C2, as claimed: for K >= 2 points of positions p0 < ... < p(K-1) the
\* position array has K + 2 entries: 0, then p0 .. p(K-1), then 1.
C2_PositionLayout ==
    (/\ rampPc # "idle"
     /\ K >= 2
     /\ \A a \in 1..(K - 1) : entries[a].position < entries[a + 1].position)
    =>
        /\ rampPc = "done"
        /\ ExactlyElements(xml["position"], K + 2)
        /\ NumVal(ElementValue(xml["position"], 0)) = 0
        /\ \A s \in 1..K :
              NumVal(ElementValue(xml["position"], s)) = entries[s].position
        /\ NumVal(ElementValue(xml["position"], K + 1)) = 10

\* C3, as claimed: a rampFloat of K >= 2 constant control points gets a value
\* array of K + 2 populated entries, the first and the last repeating their
\* neighbour.
C3_FloatLayout ==
    ConstantRamp("rampFloat") =>
        /\ rampPc = "done"
        /\ ExactlyElements(xml["value"], K + 2)
        /\ ElementValue(xml["value"], 0) = ElementValue(xml["value"], 1)
        /\ ElementValue(xml["value"], K + 1) = ElementValue(xml["value"], K)

\* C13, as claimed: an interpolation mode the table does not list gives the
\* 'custom' fallback and a warning, and no exception.
C13_InterpolationFallback ==
    (ConstantRamp("ramp") /\ rampNode.attributes["interpolation"] \notin {0, 1, 4})
    =>
        /\ rampPc = "done"
        /\ xml["interpolation"].elems # <<>>
        /\ \A e \in Range(xml["interpolation"].elems) :
              e.value = <<"str", "custom">>
        /\ rampLog # <<>>

\* The running index of control point i among the connected ones.
RunningIndex(i) ==
    Cardinality({m \in 0..(i - 1) : HasConnection(rampNode, EntryPlug(m))})

\* C14, as claimed: when some control point of a ramp is connected, the slots
\* of the connected points hold their 0-based running index into the
\* connection list, and the slots of the constant points their literal colour.
C14_ConnectedIndex ==
    (rampPc # "idle" /\ rampNode.type = "ramp" /\ K >= 2
        /\ HasConnections(rampNode, K))
    =>
        /\ rampPc = "done"
        /\ ExactlyElements(xml["color"], 3 * (K + 2))
        /\ \E f \in AscendingOrders :
              \A s \in 1..K :
                 ColorSlot(s) =
                    IF HasConnection(rampNode, EntryPlug(f[s] - 1))
                    THEN [j \in 1..3 |-> StrInt(RunningIndex(f[s] - 1))]
                    ELSE [j \in 1..3 |-> StrFloat(entries[f[s]].color[j])]

\* The name the target has for a source ramp type.
RampTypeName(t) ==
    CASE t = 0 -> "v" [] t = 1 -> "u" [] t = 2 -> "diagonal"
      [] t = 3 -> "radial" [] t = 4 -> "circular" [] t = 5 -> "box"
      [] OTHER -> "custom"

\* C21: the ramp types 0..5 become v, u, diagonal, radial, circular, box and
\* any other 'custom' with a warning; a connected vCoord or uCoord makes the
\* type 'custom' and becomes the connection of 'input', for which no literal
\* is written; a literal of 'input', 'type' or 'ramp' is written only on a
\* port without a connection.
C21_RampHeader ==
    rampPc # "idle" =>
        LET t == rampNode.attributes["type"]
            conns == rampNode.connections
            driven == "input" \in DOMAIN conns
        IN  /\ {"vCoord", "uCoord"} \cap DOMAIN conns = {}
            /\ driven => /\ t \in {0, 1}
                         /\ conns["input"] = Conn("tex", "outColor")
                         /\ ~xml["input"].enable
            /\ "type" \notin DOMAIN conns =>
                  /\ xml["type"].enable
                  /\ xml["type"].value =
                        <<"str", IF driven THEN "custom" ELSE RampTypeName(t)>>
            /\ (rampLog # <<>>) <=> (t \notin 0..5)
            /\ \A k \in {"input", "type", "ramp"} :
                  xml[k].enable => k \notin DOMAIN conns

\* C21 witness: a v ramp with vCoord connected and 'ramp' free was processed
\* without an exception.
C21_Witness ==
    /\ rampPc = "done"
    /\ rampNode.attributes["type"] = 0
    /\ "input" \in DOMAIN rampNode.connections
    /\ xml["type"].value = <<"str", "custom">>
    /\ xml["ramp"].enable

\* C26, as claimed: every array parameter process_ramp has filled for a ramp
\* of K >= 1 control points (position, color or value, interpolation) has the
\* size attribute tupleSize * (K + 2) and exactly that many elements, named
\* i0 .. i(size-1) once each.
C26_ArraySizes ==
    (rampPc # "idle" /\ K >= 1) =>
        \A k \in {"position", KeyValue(rampNode.type), "interpolation"} :
            (xml[k].enable /\ ~xml[k].raised) =>
                /\ xml[k].size = TupleSize(k) * (K + 2)
                /\ ExactlyElements(xml[k], xml[k].size)

(***************************************************************************)
(* Claims about the mapping tables, checked under SpecMap.                 *)
(***************************************************************************)
\* C15, as claimed: every leaf the table writes, given a source value, puts
\* exactly one attribute in the tree, of its target name and carrying its
\* value; no two leaves of a group write the same target attribute.
C15_SchemaCoverage ==
    mapPc = "done" =>
        \A i \in DOMAIN Written[mapNode.group] :
            LET key == Written[mapNode.group][i][1]
                leaf == Written[mapNode.group][i][2]
                name == LeafName(key, leaf)
            IN  key \in DOMAIN mapNode.attributes =>
                   /\ name \in DOMAIN tree
                   /\ Cardinality(DOMAIN tree[name]) = 1
                   /\ tree[name][key] =
                         LeafValue(leaf, mapNode.attributes[key])

\* The enum attributes the preprocess hook of the node has written or
\* normalized.
HookEnums ==
    CASE mapNode.source.type = "aiImage" -> {"swrap", "twrap"}
      [] mapNode.source.type = "file" -> {"filter"}
      [] mapNode.group = "spaceTransform" -> {"type", "from", "to"}
      [] OTHER -> {}

\* C28: every enum attribute a preprocess hook has written or normalized is an
\* index into the labels the schema of the node's target type has for it:
\* type 2, from 4 and to 0 of a spaceTransform, filter 3 of the image made of
\* a file, swrap and twrap of the image made of an aiImage with any wrap
\* modes 0..5.
C28_EnumInRange ==
    mapPc # "source" =>
        LET schema == Schema(mapNode.group)
            attributes == mapNode.attributes
        IN  /\ \A k \in HookEnums :
                  /\ k \in DOMAIN schema
                  /\ k \in DOMAIN attributes
                  /\ schema[k].labels # <<>>
                  /\ attributes[k] \in 0..(Len(schema[k].labels) - 1)
            /\ mapNode.source.type = "file" => attributes["filter"] = 3
            /\ mapNode.group = "spaceTransform" =>
                  /\ attributes["type"] = 2
                  /\ attributes["from"] = 4
                  /\ attributes["to"] = 0

\* C28 witness: an aiImage of wrap modes 5 and 4 has been preprocessed into
\* an image of wrap modes 0 and 4.
C28_Witness ==
    /\ mapPc = "idle"
    /\ mapNode.source.type = "aiImage"
    /\ mapNode.group = "image"
    /\ mapNode.source.attributes["swrap"] = 5
    /\ mapNode.source.attributes["twrap"] = 4
    /\ mapNode.attributes["swrap"] = 0
    /\ mapNode.attributes["twrap"] = 4

(***************************************************************************)
(* Claims about the pipeline, checked under Spec (C9 under FairSpec).      *)
(***************************************************************************)
Ramps == {"ramp1", "ramp2"} \cap DOMAIN scene.nodes

Preprocessed(n) == \E i \in DOMAIN ran : ran[i].node = n

\* The connections that drive control points of ramp r in the scene.
Feeds(r) == Range(scene.nodes[r].connections)

\* C4, as claimed: a ramp of no or one control point, constant or connected,
\* leaves no 'ramp' or 'rampFloat' node in the graph preprocess_ramp produces.
C4_DegenerateCollapse ==
    \A r \in Ramps :
        (Preprocessed(r) /\ scene.sizes[r] <= 1) =>
            ~(r \in DOMAIN graph /\ graph[r].type \in {"ramp", "rampFloat"})

\* C5, as claimed: once the connections are resolved, a ramp of exactly one
\* control point is no node of the graph, and every input it drove is driven
\* by the node and port that fed the control point.
C5_SinglePointPassthrough ==
    phase = "post" =>
        \A r \in Ramps :
            scene.sizes[r] = 1 =>
                /\ r \notin DOMAIN graph
                /\ \A n \in DOMAIN graph \cap DOMAIN scene.nodes :
                      \A q \in DOMAIN graph[n].connections
                                  \cap DOMAIN scene.nodes[n].connections :
                         \A f \in Feeds(r) :
                            (/\ scene.nodes[n].connections[q].node = r
                             /\ f.node \notin Ramps)
                            => graph[n].connections[q] = f

C7_WeightOrder ==
    \A i, j \in DOMAIN ran : i < j => ran[i].weight <= ran[j].weight

\* C8, as claimed: after the shader X is reinserted as X_out and the final
\* resolution pass has run, every connection that named X names X_out.
C8_ShaderRenamed ==
    (phase = "emit" /\ cursor # None) =>
        \A k \in DOMAIN before :
            \A q \in DOMAIN before[k].connections :
                before[k].connections[q].node = cursor =>
                    LET now == IF k = material THEN cursor \o "_mtl" ELSE k
                    IN  /\ now \in DOMAIN graph
                        /\ q \in DOMAIN graph[now].connections
                        /\ graph[now].connections[q].node = cursor \o "_out"

\* C9, as claimed: postprocess_network_material terminates: the run always
\* gets past the hook, to the emitted graph or to the abort on a cycle.
C9_PostprocessTerminates == <>(phase \in {"done", "aborted"})

\* The ids the ledger can be asked about.
Ids ==
    DOMAIN graph \cup DOMAIN scene.nodes \cup DOMAIN ledger
    \cup Range(ledger)

RECURSIVE Walk(_, _)
Walk(id, seen) ==
    IF id \notin DOMAIN ledger \/ ledger[id] = id THEN id
    ELSE IF id \in seen THEN CycleError
    ELSE Walk(ledger[id], seen \cup {id})

MixOf(r) ==
    {k \in DOMAIN graph :
        graph[k].type = "mix" /\ r \in DOMAIN graph[k].renamings}

\* C12, as claimed: a ramp is replaced by a mix node and a rampFloat exactly
\* when one or two of its control points are connected and it has at most two
\* control points (two, as a ramp of one point collapses); a ramp of more than
\* two control points gets no mix node.
C12_MixOnlyUpToTwoPoints ==
    \A r \in Ramps :
        Preprocessed(r) =>
            LET live == Cardinality(DOMAIN ConnectedEntries(scene.nodes[r]))
                replaced == /\ MixOf(r) # {}
                            /\ r \in DOMAIN graph
                            /\ graph[r].type = "rampFloat"
            IN  /\ replaced => (live \in 1..2 /\ scene.sizes[r] <= 2)
                /\ (live \in 1..2 /\ scene.sizes[r] = 2) => replaced

\* C16, as claimed: once preprocess_displacement has run no node of the graph
\* has the id of the displacement node, and after the rename pass the
\* material's displacement input is driven by the node and port that fed the
\* 'displacement' input.
C16_DisplacementRemoved ==
    /\ Preprocessed("disp1") => "disp1" \notin DOMAIN graph
    /\ (/\ phase = "post"
        /\ "disp1" \in DOMAIN scene.nodes
        /\ "displacement" \in DOMAIN scene.nodes["disp1"].connections)
       =>
          /\ "arnoldDisplacement" \in DOMAIN graph["SG"].connections
          /\ graph["SG"].connections["arnoldDisplacement"] =
                scene.nodes["disp1"].connections["displacement"]

\* The node behind the aov_write nodes: from id, through 'beauty', to the first
\* node of another type, in the graph as it was before the postprocess.
RECURSIVE BehindAov(_, _)
BehindAov(id, hops) ==
    IF id \notin DOMAIN before THEN None
    ELSE IF before[id].type \notin AovWriteTypes THEN id
    ELSE IF hops = 0 \/ "beauty" \notin DOMAIN before[id].connections
    THEN "stuck"
    ELSE BehindAov(before[id].connections["beauty"].node, hops - 1)

\* The shader postprocess_network_material is to find for the material.
Shader ==
    BehindAov(before[material].connections["arnoldSurface"].node,
              Cardinality(DOMAIN before))

\* C17: when postprocess_network_material returns, the shader S it found is
\* the first node that is no aov_write node behind the material's
\* 'arnoldSurface' input; S is in the node map as S_out and no longer as S,
\* the material is there as S_mtl, and its 'arnoldSurface' names S_out.
C17_ShaderBehindAov ==
    (phase = "final" /\ material # None) =>
        /\ cursor = Shader
        /\ cursor # None =>
              LET out == cursor \o "_out"
                  mtl == cursor \o "_mtl"
              IN  /\ {out, mtl} \subseteq DOMAIN graph
                  /\ cursor \notin DOMAIN graph
                  /\ graph[out].name = out
                  /\ graph[out].type = before[cursor].type
                  /\ graph[out].attributes = before[cursor].attributes
                  /\ graph[mtl].name = mtl
                  /\ graph[mtl].type = before[material].type
                  /\ "arnoldSurface" \in DOMAIN graph[mtl].connections
                  /\ graph[mtl].connections["arnoldSurface"].node = out

\* C17 witness: the shader was found behind two aov_write nodes.
C17_Witness ==
    /\ phase = "final"
    /\ material # None
    /\ cursor = "surf"
    /\ before[material].connections["arnoldSurface"].node = "aov1"
    /\ before["aov1"].connections["beauty"].node = "aov2"
    /\ before["aov2"].connections["beauty"].node = "surf"
    /\ "surf_out" \in DOMAIN graph

\* C18: for a plugin version below 2.0 the 'normalCamera' connection of the
\* shader becomes the material's 'arnoldBump' and leaves the shader; from 2.0
\* the shader keeps its connections and the material gets no 'arnoldBump'.
C18_BumpByVersion ==
    (phase = "final" /\ material # None /\ cursor # None) =>
        LET out == cursor \o "_out"
            mtl == cursor \o "_mtl"
            was == before[cursor].connections
        IN  /\ {out, mtl} \subseteq DOMAIN graph
            /\ IF scene.version < 2 /\ "normalCamera" \in DOMAIN was
               THEN /\ "arnoldBump" \in DOMAIN graph[mtl].connections
                    /\ graph[mtl].connections["arnoldBump"] =
                          was["normalCamera"]
                    /\ graph[out].connections = Without(was, "normalCamera")
               ELSE /\ "arnoldBump" \notin DOMAIN graph[mtl].connections
                    /\ graph[out].connections = was

\* C18 witness: the bump connection was moved under a plugin version below
\* 2.0.
C18_Witness ==
    /\ phase = "final"
    /\ material # None
    /\ cursor = "surf"
    /\ scene.version < 2
    /\ "normalCamera" \in DOMAIN before["surf"].connections
    /\ "surf_mtl" \in DOMAIN graph
    /\ "arnoldBump" \in DOMAIN graph["surf_mtl"].connections

\* Some surface or volume input of the shadingEngine is connected.
SurfaceConnected ==
    \E i \in DOMAIN SurfaceInputs :
       SurfaceInputs[i] \in DOMAIN scene.nodes["SG"].connections

\* C19, as claimed: the network material keeps its surface port exactly when
\* the shadingEngine had a surface or volume shader connected and its
\* displacement port exactly when it had a displacement shader connected,
\* under either variant.
C19_PortsKept ==
    phase \in {"post", "loop", "final", "emit", "done"} =>
        /\ ((IF scene.version >= 2 THEN "arnoldSurface" ELSE "arnold_surface")
                \in ports) <=> SurfaceConnected
        /\ ("arnoldDisplacement" \in ports) <=>
              ("displacementShader" \in DOMAIN scene.nodes["SG"].connections)

\* The surface input preprocess_network_material is to take.
FirstSurface(connections) ==
    IF "aiSurfaceShader" \in DOMAIN connections
    THEN connections["aiSurfaceShader"]
    ELSE IF "surfaceShader" \in DOMAIN connections
    THEN connections["surfaceShader"]
    ELSE IF "aiVolumeShader" \in DOMAIN connections
    THEN connections["aiVolumeShader"]
    ELSE connections["volumeShader"]

\* C20: preprocess_network_material leaves the node 'arnoldSurface', the first
\* connected of aiSurfaceShader, surfaceShader, aiVolumeShader, volumeShader,
\* and 'arnoldDisplacement', the displacementShader input, and nothing else;
\* the type is 'networkMaterial_ar5' from plugin version 2.0, else
\* 'networkMaterial'.
C20_NetworkMaterialInputs ==
    (phase = "pre" /\ Preprocessed("SG")) =>
        LET was == scene.nodes["SG"].connections
            now == graph["SG"].connections
        IN  /\ DOMAIN now \subseteq {"arnoldSurface", "arnoldDisplacement"}
            /\ ("arnoldSurface" \in DOMAIN now) <=> SurfaceConnected
            /\ SurfaceConnected => now["arnoldSurface"] = FirstSurface(was)
            /\ ("arnoldDisplacement" \in DOMAIN now) <=>
                  ("displacementShader" \in DOMAIN was)
            /\ "displacementShader" \in DOMAIN was =>
                  now["arnoldDisplacement"] = was["displacementShader"]
            /\ graph["SG"].type = IF scene.version >= 2
                                  THEN "networkMaterial_ar5"
                                  ELSE "networkMaterial"

\* C20 witness: the hook ran on a shadingEngine with two surface inputs, a
\* volume input, a displacement input and an input of no use connected.
C20_Witness ==
    /\ phase = "pre"
    /\ Preprocessed("SG")
    /\ {"aiSurfaceShader", "surfaceShader", "volumeShader", "aiCustomAOVs",
         "displacementShader"} \subseteq DOMAIN scene.nodes["SG"].connections
    /\ graph["SG"].connections["arnoldSurface"] = Conn("noise1", "outColor")

\* The record preprocess_bump is to return for a bump2d record.
BumpExpected(node) ==
    [name |-> node.name,
     type |-> IF node.attributes["bumpInterp"] = 1 THEN "spaceTransform"
              ELSE node.type,
     attributes |->
        IF node.attributes["bumpInterp"] = 1
        THEN [k \in DOMAIN node.attributes \cup
                    {"type", "from", "to", "invert_x", "invert_y", "invert_z",
                     "color_to_signed", "set_normal"} |->
                 CASE k = "type" -> 2
                   [] k = "from" -> 4
                   [] k \in {"to", "invert_x", "invert_y", "invert_z"} -> 0
                   [] k \in {"color_to_signed", "set_normal"} -> 1
                   [] OTHER -> node.attributes[k]]
        ELSE node.attributes,
     connections |-> node.connections,
     weight |-> 10,
     renamings |-> node.renamings]

\* C22: the step of preprocess_bump changes the node map at the node's own id
\* and nowhere else; the record there has weight 10, is a 'spaceTransform'
\* with type 2, from 4, to 0, invert_x/y/z 0, color_to_signed 1, set_normal 1
\* exactly when bumpInterp is 1 and keeps type and attributes otherwise, and
\* keeps its connections.
C22_BumpRecord ==
    [][\A n \in DOMAIN graph :
          (graph[n].type = "bump2d" /\ ran' = Append(ran, [node |-> n,
                                                          weight |-> 10])) =>
              graph' = [graph EXCEPT ![n] = BumpExpected(graph[n])]]_vars

\* C22 witness: a tangent-space bump with a connected input has become a
\* spaceTransform of weight 10.
C22_Witness ==
    /\ Preprocessed("bump1")
    /\ scene.nodes["bump1"].attributes["bumpInterp"] = 1
    /\ graph["bump1"].type = "spaceTransform"
    /\ graph["bump1"].weight = 10
    /\ graph["bump1"].connections # EmptyDict

\* The outputs of samplerInfo node n that drive an input of the scene.
SamplerOutputs(n) ==
    {c.original_port :
        c \in {d \in UNION {Range(scene.nodes[k].connections) :
                                k \in DOMAIN scene.nodes} : d.node = n}}

OfType(type) == {k \in DOMAIN graph : graph[k].type = type}

\* C23: once preprocess_sampler has run, the samplerInfo node is no node of
\* the graph; there is one 'facingRatio' node exactly when its facingRatio
\* output is connected and one 'two_sided' node, front white and back black,
\* exactly when flippedNormal is, each under an id no source node has and with
\* the one renaming samplerInfo id -> its id; no other node is added.
C23_SamplerRecords ==
    \A n \in DOMAIN scene.nodes :
        (scene.nodes[n].type = "samplerInfo" /\ Preprocessed(n)
         /\ phase = "pre") =>
            LET outs == SamplerOutputs(n)
                facing == OfType("facingRatio")
                sided == OfType("two_sided")
            IN  /\ n \notin DOMAIN graph
                /\ Cardinality(facing) =
                      IF "facingRatio" \in outs THEN 1 ELSE 0
                /\ Cardinality(sided) =
                      IF "flippedNormal" \in outs THEN 1 ELSE 0
                /\ \A k \in facing \cup sided :
                      /\ k \notin DOMAIN scene.nodes
                      /\ graph[k].name = k
                      /\ DOMAIN graph[k].renamings = {n}
                      /\ graph[k].renamings[n] = [name |-> k]
                /\ \A k \in sided :
                      /\ graph[k].attributes["front"] = <<10, 10, 10, 10>>
                      /\ graph[k].attributes["back"] = <<0, 0, 0, 10>>
                /\ DOMAIN graph \ DOMAIN scene.nodes = facing \cup sided

\* C23 witness: a samplerInfo with facingRatio, flippedNormal and uvCoord
\* connected has been preprocessed.
C23_Witness ==
    /\ phase = "pre"
    /\ Preprocessed("info1")
    /\ SamplerOutputs("info1") = {"facingRatio", "flippedNormal", "uvCoord"}
    /\ Cardinality(OfType("facingRatio") \cup OfType("two_sided")) = 2

\* C24, as claimed: no two records of the graph declare different new ids for
\* the same old id.
C24_LedgerFunction ==
    \A k1 \in DOMAIN graph, k2 \in DOMAIN graph :
        \A old \in DOMAIN graph[k1].renamings \cap DOMAIN graph[k2].renamings :
            graph[k1].renamings[old].name = graph[k2].renamings[old].name

\* No node of the source scene is upstream of itself.
SourceAcyclic ==
    \A n \in DOMAIN scene.nodes :
        n \notin Upstream(scene.nodes,
                          {c.node : c \in Range(scene.nodes[n].connections)},
                          Cardinality(DOMAIN scene.nodes))

\* C25, as claimed: after the resolution pass on a scene without cycles the
\* 'mix' input of the mix node that replaced ramp R is driven by the
\* rampFloat R, and no node of the graph has an input driven by the node
\* itself.
C25_MixDrivenByRamp ==
    (phase = "map" /\ SourceAcyclic) =>
        /\ \A r \in Ramps : \A m \in MixOf(r) :
              /\ "mix" \in DOMAIN graph[m].connections
              /\ graph[m].connections["mix"].node = r
              /\ r \in DOMAIN graph
              /\ graph[r].type = "rampFloat"
        /\ \A k \in DOMAIN graph :
              \A c \in Range(graph[k].connections) : c.node # k

\* C27, as claimed: the ids <S>_out and <S>_mtl postprocess_network_material
\* reinserts the shader and the material under are the ids of no node that
\* was in the graph when the hook began.
C27_FreshFinalIds ==
    (phase = "final" /\ material # None /\ cursor # None) =>
        {cursor \o "_out", cursor \o "_mtl"} \cap DOMAIN before = {}

====
